---- MODULE Spec2Model ----
(***************************************************************************)
(* A model of advent-of-code-rust-runner: the harness (src/lib.rs), the    *)
(* capability contract of a day (src/day.rs) and the input cache/fetcher   *)
(* (src/environment.rs).                                                   *)
(*                                                                         *)
(* One behaviour is a sequence of processes run in one working directory:  *)
(* each process constructs a Runner (Initialize), is handed its arguments  *)
(* (RunWithArgs), walks through run_day for the selected days and exits.   *)
(* The cache directory, the session file and the wall clock outlive the    *)
(* processes.                                                              *)
(***************************************************************************)
EXTENDS Integers, Sequences, FiniteSets, TLC

\* ------------------------------------------------------------------ bounds
\* How many processes are started in the working directory.
MaxProcs == 2
\* The largest repeat count (--stats) of the repeated-runs specification.
MaxRuns == 3
\* The longest sequence of durations, and the longest duration, handed to the
\* Statistics Engine on its own.
MaxLen == 4
MaxDur == 3

\* ------------------------------------------------------------ input domains
\* Configured years (Runner::new's year): one before and one from 2025, and one
\* that does not parse as a number.
Years == {"2024", "2025", "MMXXV"}
\* The registered solutions, in registration order (Runner::new's days).
Registered == <<2, 13>>
\* Values of --day: absent (<<>>), 0, a valid unregistered day, a registered day,
\* a day valid only before 2025, and a day no year has.
DayChoices == {<<>>, <<0>>, <<1>>, <<2>>, <<13>>, <<26>>}
\* Values of --stats in whole runs: rejected, a single run, repeated runs.
RunCounts == {0, 1, 2}
\* Measured durations of one part, in nanoseconds.
Durations == {1, 2}
\* Response bodies the puzzle site may serve.
Bodies == {"A", "B"}
\* What the user may type at the session prompt (read_line keeps the newline).
Entries == {<<"t", "\n">>, <<" ", "t", " ", "\n">>}
\* Wall-clock instants (UTC) the clock steps through, in increasing order.
Instants ==
  << [y |-> 2024, mo |-> 12, d |-> 2,  h |-> 12],
     [y |-> 2024, mo |-> 12, d |-> 26, h |-> 12],
     [y |-> 2025, mo |-> 12, d |-> 1,  h |-> 3],
     [y |-> 2025, mo |-> 12, d |-> 1,  h |-> 12],
     [y |-> 2025, mo |-> 12, d |-> 2,  h |-> 12],
     [y |-> 2025, mo |-> 12, d |-> 13, h |-> 12] >>

\* ------------------------------------------------------------ value shapes
None == <<>>
Some(x) == <<x>>
Ok(v) == [ok |-> TRUE, val |-> v]
Err(e) == [ok |-> FALSE, err |-> e]
NoFile == [exists |-> FALSE]
File(c) == [exists |-> TRUE, content |-> c]

DayNums == {Registered[i] : i \in 1..Len(Registered)}

\* --------------------------------------------------------------- Scheduler
\* str::parse::<u32> on the configured year; -1 stands for the parse error.
ParseYear(s) ==
  CASE s = "2024" -> 2024
    [] s = "2025" -> 2025
    [] OTHER -> -1

\* i32::to_string on the clock's year.
YearToString(n) ==
  CASE n = 2023 -> "2023"
    [] n = 2024 -> "2024"
    [] n = 2025 -> "2025"
    [] n = 2026 -> "2026"
    [] OTHER -> "other"

max_day(year) ==
  IF ParseYear(year) = -1
    THEN Err("Invalid year value")
    ELSE Ok(IF ParseYear(year) >= 2025 THEN 12 ELSE 25)

IsLeap(y) == (y % 4 = 0 /\ y % 100 # 0) \/ y % 400 = 0

DaysInMonth(y, mo) ==
  CASE mo \in {4, 6, 9, 11} -> 30
    [] mo = 2 -> IF IsLeap(y) THEN 29 ELSE 28
    [] OTHER -> 31

\* OffsetDateTime::to_offset(UTC-5): the same moment, five hours earlier on the
\* calendar.
ToOffsetMinus5(t) ==
  IF t.h >= 5 THEN [t EXCEPT !.h = @ - 5]
  ELSE IF t.d > 1 THEN [t EXCEPT !.h = @ + 19, !.d = @ - 1]
  ELSE IF t.mo > 1
    THEN [t EXCEPT !.h = @ + 19, !.mo = @ - 1, !.d = DaysInMonth(t.y, t.mo - 1)]
    ELSE [y |-> t.y - 1, mo |-> 12, d |-> 31, h |-> t.h + 19]

\* A mutant: the clock's year is not compared with the configured year.
current_aoc_day_anyyear(year, utc) ==
  LET max == max_day(year)
      now == ToOffsetMinus5(utc)
  IN IF ~max.ok THEN None
     ELSE IF now.mo = 12
       THEN (IF now.d <= max.val THEN Some(now.d) ELSE None)
       ELSE None

current_aoc_day(year, utc) ==
  LET max == max_day(year)
      now == ToOffsetMinus5(utc)
  IN IF ~max.ok THEN None
     ELSE IF YearToString(now.y) = year /\ now.mo = 12
       THEN (IF now.d <= max.val THEN Some(now.d) ELSE None)
       ELSE None

\* ------------------------------------------------------- Statistics Engine
RECURSIVE Insert(_, _)
Insert(x, s) ==
  IF s = <<>> THEN <<x>>
  ELSE IF x <= Head(s) THEN <<x>> \o s
  ELSE <<Head(s)>> \o Insert(x, Tail(s))

RECURSIVE Sort(_)
\* slice::sort on durations.
Sort(s) == IF s = <<>> THEN <<>> ELSE Insert(Head(s), Sort(Tail(s)))

RECURSIVE Sum(_)
Sum(s) == IF s = <<>> THEN 0 ELSE Head(s) + Sum(Tail(s))

DefaultStats == [min |-> 0, max |-> 0, median |-> 0, mean |-> 0]

\* A mutant: the slice is not sorted first.
build_stats_nosort(times) ==
  IF times = <<>> THEN DefaultStats
  ELSE LET t == times
           n == Len(t)
       IN [min |-> t[1],
           max |-> t[n],
           median |-> IF n % 2 = 1 THEN t[n \div 2 + 1]
                      ELSE (t[n \div 2] + t[n \div 2 + 1]) \div 2,
           mean |-> Sum(t) \div n]

\* Vec indices are 0-based in the source: times[len / 2] is t[n \div 2 + 1] here.
build_stats(times) ==
  IF times = <<>> THEN DefaultStats
  ELSE LET t == Sort(times)
           n == Len(t)
       IN [min |-> t[1],
           max |-> t[n],
           median |-> IF n % 2 = 1 THEN t[n \div 2 + 1]
                      ELSE (t[n \div 2] + t[n \div 2 + 1]) \div 2,
           mean |-> Sum(t) \div n]

\* ----------------------------------------------------- Capability Contract
\* Rendered outputs a part may give, and the example bundled with every solution.
Outputs == {"6", "7"}
ExampleInput(d) == "1,2,3"
ExamplePart1Result(d) == "6"
ExamplePart2Result(d) == "6"
\* What the registered solutions answer on their example: day 2 is right in
\* both parts, every other day is right in part one and wrong in part two.
ExampleAnswers(d) == IF d = 2 THEN <<"6", "6">> ELSE <<"6", "7">>

\* execute_part_1 / execute_part_2 of the solution of day d: its answer on the
\* example is the one above, on any other input the text "real".
Answer(d, part, input) ==
  IF input = ExampleInput(d) THEN ExampleAnswers(d)[part] ELSE "real"

\* The Context execute_part_1 returns: opaque to the harness; the model tags it
\* with the invocation and the input it was made from.
Context(inv, input) == [inv |-> inv, input |-> input]

\* A mutant: part two is entered though part one failed, with the Context of
\* the invocation before.
run_with_input_mut(d, input, inv, f1, f2, t1, t2) ==
  LET part1 == IF f1 THEN Err(<<"solution error">>)
               ELSE Ok(<<Answer(d, 1, input), Context(inv, input)>>)
      call1 == [part |-> 1, inv |-> inv, input |-> input, ret |-> part1]
      context == IF part1.ok THEN part1.val[2] ELSE Context(inv - 1, input)
      part2 == IF f2 THEN Err(<<"solution error">>) ELSE Ok(Answer(d, 2, input))
      call2 == [part |-> 2, inv |-> inv, input |-> input, ctx |-> context,
                ret |-> part2]
  IN IF ~part2.ok \/ ~part1.ok
       THEN [calls |-> <<call1, call2>>, res |-> Err(<<"solution error">>)]
       ELSE [calls |-> <<call1, call2>>,
             res |-> Ok([part_1_result |-> part1.val[1], part_1_time |-> t1,
                         part_2_result |-> part2.val, part_2_time |-> t2])]

\* f1, f2: whether the solution's part one / part two fails on this call;
\* t1, t2: the elapsed times measured around them; inv: the number of this
\* invocation. calls lists the part calls made, with what each was given and
\* what it returned.
run_with_input(d, input, inv, f1, f2, t1, t2) ==
  LET part1 == IF f1 THEN Err(<<"solution error">>)
               ELSE Ok(<<Answer(d, 1, input), Context(inv, input)>>)
      call1 == [part |-> 1, inv |-> inv, input |-> input, ret |-> part1]
  IN IF ~part1.ok
       THEN [calls |-> <<call1>>, res |-> part1]
       ELSE LET context == part1.val[2]
                part2 == IF f2 THEN Err(<<"solution error">>)
                         ELSE Ok(Answer(d, 2, input))
                call2 == [part |-> 2, inv |-> inv, input |-> input,
                          ctx |-> context, ret |-> part2]
            IN IF ~part2.ok
                 THEN [calls |-> <<call1, call2>>, res |-> part2]
                 ELSE [calls |-> <<call1, call2>>,
                       res |-> Ok([part_1_result |-> part1.val[1],
                                   part_1_time |-> t1,
                                   part_2_result |-> part2.val,
                                   part_2_time |-> t2])]

\* TestResult::from_execution_result
from_execution_result(r, expected_part_1, expected_part_2) ==
  [part_1_correct |-> r.part_1_result = expected_part_1,
   part_1_time |-> r.part_1_time,
   part_2_correct |-> r.part_2_result = expected_part_2,
   part_2_time |-> r.part_2_time]

test_day(d, inv, f1, f2, t1, t2) ==
  LET run == run_with_input(d, ExampleInput(d), inv, f1, f2, t1, t2)
  IN [calls |-> run.calls,
      res |-> IF run.res.ok
                THEN Ok(from_execution_result(run.res.val, ExamplePart1Result(d),
                                              ExamplePart2Result(d)))
                ELSE run.res]

\* Day::execute_day as src/day.rs has it: the input handed over by the harness
\* is not used, the example input is run instead.
execute_day(d, input, inv, f1, f2, t1, t2) ==
  LET run == run_with_input(d, ExampleInput(d), inv, f1, f2, t1, t2)
  IN [calls |-> run.calls, res |-> run.res]

\* ------------------------------------------------------ Input Cache/Fetcher
Whitespace == {" ", "\n", "\t", "\r"}

RECURSIVE TrimStart(_)
TrimStart(s) ==
  IF s # <<>> /\ Head(s) \in Whitespace THEN TrimStart(Tail(s)) ELSE s

RECURSIVE TrimEnd(_)
TrimEnd(s) ==
  IF s # <<>> /\ s[Len(s)] \in Whitespace
    THEN TrimEnd(SubSeq(s, 1, Len(s) - 1)) ELSE s

\* A mutant: only the leading whitespace is removed.
TrimStartOnly(s) == TrimStart(s)

\* str::trim
Trim(s) == TrimEnd(TrimStart(s))

\* What the puzzle site may answer to one GET.
Responses ==
  {[success |-> FALSE, body |-> "Not Found"]}
    \cup {[success |-> TRUE, body |-> b] : b \in Bodies}

\* A mutant: the cache is not looked at; every call asks the site and writes
\* the file again.
fetch_input_refetch(files, d, resp) ==
  IF resp.success
    THEN [res |-> Ok(resp.body),
          files |-> [files EXCEPT ![d] = File(resp.body)],
          events |-> <<[op |-> "http_get", day |-> d],
                       [op |-> "cache_write", day |-> d]>>]
    ELSE [res |-> Err(<<"Failed to fetch input: HTTP status">>),
          files |-> files,
          events |-> <<[op |-> "http_get", day |-> d]>>]

\* A mutant: a fetched body is returned without being written to the cache.
fetch_input_nowrite(files, d, resp) ==
  IF files[d].exists
    THEN [res |-> Ok(files[d].content), files |-> files, events |-> <<>>]
  ELSE IF resp.success
    THEN [res |-> Ok(resp.body),
          files |-> files,
          events |-> <<[op |-> "http_get", day |-> d]>>]
    ELSE [res |-> Err(<<"Failed to fetch input: HTTP status">>),
          files |-> files,
          events |-> <<[op |-> "http_get", day |-> d]>>]

\* A mutant: the body of a response that is not a success is cached as well.
fetch_input_keepfail(files, d, resp) ==
  IF files[d].exists
    THEN [res |-> Ok(files[d].content), files |-> files, events |-> <<>>]
  ELSE IF resp.success
    THEN [res |-> Ok(resp.body),
          files |-> [files EXCEPT ![d] = File(resp.body)],
          events |-> <<[op |-> "http_get", day |-> d],
                       [op |-> "cache_write", day |-> d]>>]
    ELSE [res |-> Err(<<"Failed to fetch input: HTTP status">>),
          files |-> [files EXCEPT ![d] = File(resp.body)],
          events |-> <<[op |-> "http_get", day |-> d],
                       [op |-> "cache_write", day |-> d]>>]

\* A mutant: the request for an uncached day is sent twice.
fetch_input_twice(files, d, resp) ==
  IF files[d].exists
    THEN [res |-> Ok(files[d].content), files |-> files, events |-> <<>>]
  ELSE IF resp.success
    THEN [res |-> Ok(resp.body),
          files |-> [files EXCEPT ![d] = File(resp.body)],
          events |-> <<[op |-> "http_get", day |-> d],
                       [op |-> "http_get", day |-> d],
                       [op |-> "cache_write", day |-> d]>>]
    ELSE [res |-> Err(<<"Failed to fetch input: HTTP status">>),
          files |-> files,
          events |-> <<[op |-> "http_get", day |-> d],
                       [op |-> "http_get", day |-> d]>>]

\* files: the cache directory, one file per day (inputs/dayNN); resp: the
\* site's answer, looked at only when a request is sent.
fetch_input(files, d, resp) ==
  IF files[d].exists
    THEN [res |-> Ok(files[d].content), files |-> files, events |-> <<>>]
  ELSE IF resp.success
    THEN [res |-> Ok(resp.body),
          files |-> [files EXCEPT ![d] = File(resp.body)],
          events |-> <<[op |-> "http_get", day |-> d],
                       [op |-> "cache_write", day |-> d]>>]
    ELSE [res |-> Err(<<"Failed to fetch input: HTTP status">>),
          files |-> files,
          events |-> <<[op |-> "http_get", day |-> d]>>]

\* ------------------------------------------------------------------- state
VARIABLES
  year,          \* the configured year (Runner::new's argument)
  clock,         \* the wall clock: an index into Instants
  session_file,  \* the credential file of the working directory
  cache,         \* the cache directory: day -> its file
  fetch_hist,    \* per day, every fetch_input made in the directory so far
  procs,         \* processes started so far
  pc,            \* the running process's position
  session_cookie,\* env.session_cookie of the running process
  prompts,       \* interactive prompts made by the processes so far
  args,          \* the RunnerArgs handed to run_with_args
  all_mode,      \* whether run_all_days (TRUE) or run_single_day drives run_day
  idx,           \* the index into Registered of the day run_day is at
  today,         \* what current_aoc_day gave at run_day's gate
  input,         \* run_day's input text
  results,       \* run_day's results vector
  stats,         \* the RunStats run_day returned, with the parts' statistics
  invocations,   \* run_with_input invocations of the process so far
  calls,         \* the part calls of the latest run_with_input invocation
  log,           \* what the process did so far: the calls and notices, in order
  error,         \* the error chain run_inner returned, outermost context first
  exit_code,     \* the process's exit code; -1 while it runs
  times,         \* the slice handed to build_stats on its own
  run_stats      \* that call of build_stats: what it was given and returned

vars == <<year, clock, session_file, cache, fetch_hist, procs, pc, session_cookie,
          prompts, args, all_mode, idx, today, input, results, stats,
          invocations, calls, log, error, exit_code, times, run_stats>>

\* The state of the Statistics Engine taken on its own.
engine == <<times, run_stats>>

world == <<year, clock, session_file, cache, fetch_hist, procs, prompts>>

\* The arguments clap lets through: --day conflicts with --all, and
\* --skip-tests with --tests-only.
ArgsSet ==
  {a \in [specific_day : DayChoices, all_days : BOOLEAN, skip_tests : BOOLEAN,
          tests_only : BOOLEAN, num_runs : RunCounts] :
     /\ ~(a.specific_day # None /\ a.all_days)
     /\ ~(a.skip_tests /\ a.tests_only)}

NoArgs ==
  [specific_day |-> None, all_days |-> FALSE, skip_tests |-> FALSE,
   tests_only |-> FALSE, num_runs |-> 1]

Init ==
  /\ year \in Years
  /\ clock \in 1..Len(Instants)
  /\ session_file = NoFile
  /\ cache = [d \in DayNums |-> NoFile]
  /\ fetch_hist = [d \in DayNums |-> <<>>]
  /\ procs = 0
  /\ pc = "none"
  /\ session_cookie = <<>>
  /\ prompts = 0
  /\ args = NoArgs
  /\ all_mode = FALSE
  /\ idx = 0
  /\ today = None
  /\ input = ""
  /\ results = <<>>
  /\ stats = None
  /\ invocations = 0
  /\ calls = <<>>
  /\ log = <<>>
  /\ error = <<>>
  /\ exit_code = -1
  /\ times = <<>>
  /\ run_stats = None

Day == Registered[idx]

Event(op, d) == [op |-> op, day |-> d]

\* How many events of kind op the sequence of events holds.
Count(events, op) == Len(SelectSeq(events, LAMBDA e : e.op = op))

\* ---------------------------------------------------------------- actions
\* The wall clock moves on: between processes, before the arguments are read and
\* between two days (a run_day is short against the clock's steps).
Tick ==
  /\ pc \in {"none", "ready", "run_day", "exited"}
  /\ clock < Len(Instants)
  /\ clock' = clock + 1
  /\ UNCHANGED <<year, session_file, cache, fetch_hist, procs, pc, session_cookie,
                 prompts, args, all_mode, idx, today, input, results, stats,
                 invocations, calls, log, error, exit_code, engine>>

\* Runner::new, AOCEnvironment::initialize: a new process starts in the working
\* directory; it prompts for the session cookie and writes the session file
\* when there is none, and reads the file otherwise.
Initialize ==
  /\ pc \in {"none", "exited"}
  /\ procs < MaxProcs
  /\ procs' = procs + 1
  /\ IF ~session_file.exists
       THEN \E entry \in Entries :
              /\ session_file' = File(Trim(entry))
              /\ session_cookie' = <<"session=">> \o Trim(entry)
              /\ prompts' = prompts + 1
       ELSE /\ session_cookie' = <<"session=">> \o Trim(session_file.content)
            /\ UNCHANGED <<session_file, prompts>>
  /\ pc' = "ready"
  /\ args' = NoArgs
  /\ all_mode' = FALSE
  /\ idx' = 0
  /\ today' = None
  /\ input' = ""
  /\ results' = <<>>
  /\ stats' = None
  /\ invocations' = 0
  /\ calls' = <<>>
  /\ log' = <<>>
  /\ error' = <<>>
  /\ exit_code' = -1
  /\ UNCHANGED <<year, clock, cache, fetch_hist, engine>>

\* run_with_args on an Err of run_inner: the error and the usage are printed
\* and the process exits with 1.
Fail(chain) ==
  /\ pc' = "exited"
  /\ error' = chain
  /\ exit_code' = 1

\* run_with_args on Ok(()).
Succeed ==
  /\ pc' = "exited"
  /\ error' = <<>>
  /\ exit_code' = 0

\* The index of the first registered solution of day n; 0 when there is none.
FindDay(n) ==
  IF \E i \in 1..Len(Registered) : Registered[i] = n
    THEN CHOOSE i \in 1..Len(Registered) :
           /\ Registered[i] = n
           /\ \A j \in 1..(i - 1) : Registered[j] # n
    ELSE 0

\* A mutant: an explicit day beyond max_day is let through.
ArgsErrorMut(a) ==
  LET max == max_day(year)
  IN IF ~max.ok THEN <<max.err>>
     ELSE IF a.specific_day # None /\ a.specific_day[1] = 0
       THEN <<"Day must be between 1 and max_day">>
     ELSE IF a.num_runs = 0 THEN <<"Stats runs must be at least 1">>
     ELSE <<>>

\* run_inner's checks of the arguments (lines 91-99): <<>> when they pass, else
\* the error.
ArgsError(a) ==
  LET max == max_day(year)
  IN IF ~max.ok THEN <<max.err>>
     ELSE IF a.specific_day # None
             /\ (a.specific_day[1] = 0 \/ a.specific_day[1] > max.val)
       THEN <<"Day must be between 1 and max_day">>
     ELSE IF a.num_runs = 0 THEN <<"Stats runs must be at least 1">>
     ELSE <<>>

\* A mutant: with no day given and none resolved, the first registered day is
\* run.
DayToRunMut(a) ==
  IF a.specific_day # None THEN a.specific_day
  ELSE IF current_aoc_day(year, Instants[clock]) = None
    THEN Some(Registered[1])
    ELSE current_aoc_day(year, Instants[clock])

\* run_inner's day_to_run (lines 104-109): the day given, else the current day;
\* None stands for the error of line 108.
DayToRun(a) ==
  IF a.specific_day # None THEN a.specific_day
  ELSE current_aoc_day(year, Instants[clock])

\* run_with_args, run_inner, and the entry into run_all_days or run_single_day.
RunWithArgs ==
  /\ pc = "ready"
  /\ \E a \in ArgsSet :
       /\ args' = a
       /\ IF ArgsError(a) # <<>>
            THEN Fail(ArgsError(a)) /\ UNCHANGED <<all_mode, idx>>
          ELSE IF a.all_days
            THEN /\ all_mode' = TRUE
                 /\ IF Len(Registered) = 0
                      THEN Succeed /\ UNCHANGED idx
                      ELSE /\ idx' = 1
                           /\ pc' = "run_day"
                           /\ UNCHANGED <<error, exit_code>>
          ELSE LET day_to_run == DayToRun(a)
               IN /\ all_mode' = FALSE
                  /\ IF day_to_run = None
                       THEN Fail(<<"No day specified">>) /\ UNCHANGED idx
                     ELSE IF FindDay(day_to_run[1]) = 0
                       THEN Fail(<<"Day not registered">>) /\ UNCHANGED idx
                       ELSE /\ idx' = FindDay(day_to_run[1])
                            /\ pc' = "run_day"
                            /\ UNCHANGED <<error, exit_code>>
  /\ UNCHANGED <<world, session_cookie, today, input, results, stats,
                 invocations, calls, log, engine>>

\* run_day's locals, dropped when run_day returns.
DropLocals ==
  /\ today' = None
  /\ input' = ""
  /\ results' = <<>>
  /\ stats' = None

\* run_day returns Ok(s) to its caller.
ReturnStats(s) ==
  /\ stats' = Some(s)
  /\ pc' = "day_end"
  /\ UNCHANGED <<error, exit_code>>

\* A mutant: the comparison of the gate is turned round.
NotPublishedYetMut(t, d) == t # None /\ t[1] > d

\* A mutant: the gate never skips.
NotPublishedYetNever(t, d) == FALSE

\* The release gate's test (lines 199-200): the current day resolves, to a day
\* before d.
NotPublishedYet(t, d) == t # None /\ t[1] < d

\* A mutant: a day beyond max_day is let into run_day.
NotValidForYearMut(d, max) == FALSE

\* run_day's check of the solution's day against max_day (line 189).
NotValidForYear(d, max) == d > max

\* run_day, from its header to the release gate (src/lib.rs lines 185-204).
RunDayGate ==
  /\ pc = "run_day"
  /\ LET max == max_day(year)
         t == current_aoc_day(year, Instants[clock])
     IN IF ~max.ok
          THEN /\ Fail(<<max.err>>)
               /\ log' = Append(log, Event("header", Day))
               /\ UNCHANGED <<today, stats>>
        ELSE IF NotValidForYear(Day, max.val)
          THEN /\ Fail(<<"Day is not valid for year">>)
               /\ log' = Append(log, Event("header", Day))
               /\ UNCHANGED <<today, stats>>
        ELSE IF NotPublishedYet(t, Day)
          THEN /\ today' = t
               /\ log' = log \o <<Event("header", Day), Event("skip", Day)>>
               /\ ReturnStats(DefaultStats)
          ELSE /\ today' = t
               /\ log' = Append(log, Event("header", Day))
               /\ pc' = "tests"
               /\ UNCHANGED <<stats, error, exit_code>>
  /\ UNCHANGED <<world, session_cookie, args, all_mode, idx, input, results,
                 invocations, calls, engine>>

\* print_test_result, on the TestResult src/day.rs defines.
Verdict(correct) == IF correct THEN "CORRECT" ELSE "INCORRECT"

\* A mutant: a failed example test ends run_day as well.
StopAfterTestsMut(a, t) ==
  \/ a.tests_only
  \/ (t # None /\ t[1].ok
        /\ ~(t[1].val.part_1_correct /\ t[1].val.part_2_correct))

\* A mutant: tests-only does not end run_day.
StopAfterTestsNever(a, t) == FALSE

\* Whether run_day returns after the tests (lines 216-218); t is what test_day
\* returned, None when the tests were skipped.
StopAfterTests(a, t) == a.tests_only

\* run_day's example tests and its tests-only return (lines 206-218).
RunDayTests ==
  /\ pc = "tests"
  /\ \E f1 \in BOOLEAN, f2 \in BOOLEAN, t1 \in Durations, t2 \in Durations :
       LET t == IF args.skip_tests THEN None
                ELSE Some(test_day(Day, invocations + 1, f1, f2, t1, t2).res)
           made == test_day(Day, invocations + 1, f1, f2, t1, t2).calls
       IN /\ IF ~args.skip_tests
               THEN /\ invocations' = invocations + 1
                    /\ calls' = made
                    /\ log' = log \o
                         <<Event("test_day", Day),
                           IF t[1].ok
                             THEN [op |-> "report", day |-> Day,
                                   part1 |-> Verdict(t[1].val.part_1_correct),
                                   part2 |-> Verdict(t[1].val.part_2_correct)]
                             ELSE Event("warn", Day)>>
               ELSE UNCHANGED <<invocations, calls, log>>
          /\ IF StopAfterTests(args, t)
               THEN ReturnStats(DefaultStats)
               ELSE /\ pc' = "fetch"
                    /\ UNCHANGED <<stats, error, exit_code>>
  /\ UNCHANGED <<world, session_cookie, args, all_mode, idx, today, input,
                 results, engine>>

\* run_day's fetch of the input (lines 220-223), AOCEnvironment::fetch_input.
RunDayFetch ==
  /\ pc = "fetch"
  /\ \E resp \in Responses :
       LET f == fetch_input(cache, Day, resp)
       IN /\ cache' = f.files
          /\ log' = log \o <<Event("fetch_input", Day)>> \o f.events
          /\ fetch_hist' = [fetch_hist EXCEPT ![Day] =
                              Append(@, [before |-> cache[Day],
                                         after |-> f.files[Day],
                                         requests |-> Count(f.events, "http_get"),
                                         writes |-> Count(f.events, "cache_write"),
                                         resp |-> IF cache[Day].exists THEN None
                                                  ELSE Some(resp),
                                         res |-> f.res])]
          /\ IF f.res.ok
               THEN /\ input' = f.res.val
                    /\ pc' = "execute"
                    /\ UNCHANGED <<error, exit_code>>
               ELSE /\ Fail(<<"Failed to fetch input for day">> \o f.res.err)
                    /\ UNCHANGED input
  /\ UNCHANGED <<year, clock, session_file, procs, prompts, session_cookie,
                 args, all_mode, idx, today, results, stats, invocations, calls,
                 engine>>

\* A mutant: the loop stops one run early.
RunsLeftMut(done, n) == done + 1 < n

\* The loop of repeated runs, for _ in 0..args.num_runs (line 243): whether a
\* turn is left after done turns.
RunsLeft(done, n) == done < n

\* One execute_day call of run_day: the single run (lines 225-240) or one turn
\* of the loop of repeated runs (lines 243-249).
RunDayExecute ==
  /\ pc = "execute"
  /\ \E f1 \in BOOLEAN, f2 \in BOOLEAN, t1 \in Durations, t2 \in Durations :
       LET e == execute_day(Day, input, invocations + 1, f1, f2, t1, t2)
       IN /\ invocations' = invocations + 1
          /\ calls' = e.calls
          /\ log' = Append(log, Event("execute_day", Day))
          /\ IF ~e.res.ok
               THEN /\ Fail(<<"Day execution failed">> \o e.res.err)
                    /\ UNCHANGED <<results, stats>>
             ELSE IF args.num_runs < 2
               THEN LET total == e.res.val.part_1_time + e.res.val.part_2_time
                    IN /\ results' = <<e.res.val>>
                       /\ ReturnStats([min |-> total, max |-> total,
                                       median |-> total, mean |-> total])
             ELSE /\ results' = Append(results, e.res.val)
                  /\ pc' = IF RunsLeft(Len(results) + 1, args.num_runs)
                             THEN "execute" ELSE "report"
                  /\ UNCHANGED <<stats, error, exit_code>>
  /\ UNCHANGED <<world, session_cookie, args, all_mode, idx, today, input,
                 engine>>

\* The statistics of the repeated runs (lines 251-276).
RunDayReport ==
  /\ pc = "report"
  /\ LET p1_times == [i \in 1..Len(results) |-> results[i].part_1_time]
         p2_times == [i \in 1..Len(results) |-> results[i].part_2_time]
         p1_stats == build_stats(p1_times)
         p2_stats == build_stats(p2_times)
     IN /\ log' = log \o <<Event("build_stats", Day), Event("build_stats", Day)>>
        /\ ReturnStats([p1_times |-> p1_times, p1_stats |-> p1_stats,
                        p2_times |-> p2_times, p2_stats |-> p2_stats,
                        min |-> p1_stats.min + p2_stats.min,
                        max |-> p1_stats.max + p2_stats.max,
                        median |-> p1_stats.median + p2_stats.median,
                        mean |-> p1_stats.mean + p2_stats.mean])
  /\ UNCHANGED <<world, session_cookie, args, all_mode, idx, today, input,
                 results, invocations, calls, engine>>

\* run_day has returned Ok: run_all_days goes on to the next registered day or
\* ends (lines 132-143, 172); run_single_day ends (line 181). The totals and the
\* bar chart run_all_days prints are not modelled.
DayEnd ==
  /\ pc = "day_end"
  /\ IF all_mode /\ idx < Len(Registered)
       THEN /\ idx' = idx + 1
            /\ pc' = "run_day"
            /\ log' = Append(log, Event("complete", Day))
            /\ UNCHANGED <<error, exit_code>>
       ELSE /\ Succeed
            /\ log' = IF all_mode THEN Append(log, Event("complete", Day)) ELSE log
            /\ UNCHANGED idx
  /\ DropLocals
  /\ UNCHANGED <<world, session_cookie, args, all_mode, invocations, calls,
                 engine>>

Next ==
  \/ Tick
  \/ Initialize
  \/ RunWithArgs
  \/ RunDayGate
  \/ RunDayTests
  \/ RunDayFetch
  \/ RunDayExecute
  \/ RunDayReport
  \/ DayEnd

\* Whole runs of the harness, process after process.
Spec == Init /\ [][Next]_vars

\* ------------------------------------------- the repeated runs, on their own
\* A process of 2024, started on 2 December 2024 with --day 2 --skip-tests and
\* --stats n, at the moment run_day has fetched the input of day 2 from the site.
InitRepeat ==
  /\ year = "2024"
  /\ clock = 1
  /\ session_file = File(<<"t">>)
  /\ cache = [d \in DayNums |-> IF d = 2 THEN File("A") ELSE NoFile]
  /\ fetch_hist = [d \in DayNums |->
                     IF d = 2
                       THEN <<[before |-> NoFile, after |-> File("A"),
                               requests |-> 1, writes |-> 1,
                               resp |-> Some([success |-> TRUE, body |-> "A"]),
                               res |-> Ok("A")]>>
                       ELSE <<>>]
  /\ procs = 1
  /\ pc = "execute"
  /\ session_cookie = <<"session=", "t">>
  /\ prompts = 1
  /\ \E n \in 2..MaxRuns :
       args = [specific_day |-> Some(2), all_days |-> FALSE, skip_tests |-> TRUE,
               tests_only |-> FALSE, num_runs |-> n]
  /\ all_mode = FALSE
  /\ idx = 1
  /\ today = Some(2)
  /\ input = "A"
  /\ results = <<>>
  /\ stats = None
  /\ invocations = 0
  /\ calls = <<>>
  /\ log = <<Event("header", 2), Event("fetch_input", 2), Event("http_get", 2),
             Event("cache_write", 2)>>
  /\ error = <<>>
  /\ exit_code = -1
  /\ times = <<>>
  /\ run_stats = None

NextRepeat ==
  \/ RunDayExecute
  \/ RunDayReport
  \/ DayEnd

SpecRepeat == InitRepeat /\ [][NextRepeat]_vars

\* ------------------------------------------ the Statistics Engine on its own
RECURSIVE SeqsOfLen(_, _)
SeqsOfLen(S, n) ==
  IF n = 0 THEN {<<>>}
  ELSE {<<x>> \o s : x \in S, s \in SeqsOfLen(S, n - 1)}

SeqsUpTo(S, n) == UNION {SeqsOfLen(S, k) : k \in 0..n}

\* Any slice of durations is handed to build_stats.
InitStats ==
  /\ year = "2024"
  /\ clock = 1
  /\ session_file = NoFile
  /\ cache = [d \in DayNums |-> NoFile]
  /\ fetch_hist = [d \in DayNums |-> <<>>]
  /\ procs = 0
  /\ pc = "stats"
  /\ session_cookie = <<>>
  /\ prompts = 0
  /\ args = NoArgs
  /\ all_mode = FALSE
  /\ idx = 0
  /\ today = None
  /\ input = ""
  /\ results = <<>>
  /\ stats = None
  /\ invocations = 0
  /\ calls = <<>>
  /\ log = <<>>
  /\ error = <<>>
  /\ exit_code = -1
  /\ times \in SeqsUpTo(0..MaxDur, MaxLen)
  /\ run_stats = None

\* build_stats(&mut times): the slice is sorted in place and the statistics are
\* returned.
BuildStats ==
  /\ pc = "stats"
  /\ run_stats' = Some([given |-> times, stats |-> build_stats(times)])
  /\ times' = Sort(times)
  /\ pc' = "stats_done"
  /\ UNCHANGED <<world, session_cookie, args, all_mode, idx, today, input, results,
                 stats, invocations, calls, log, error, exit_code>>

NextStats == BuildStats

SpecStats == InitStats /\ [][NextStats]_vars

\* ------------------------------------------------------------------ claims
\* Whether the process's log holds an event of kind op for day d.
Has(op, d) == \E i \in 1..Len(log) : log[i].op = op /\ log[i].day = d

\* The run ended on an Err of fetch_input or of execute_day.
FetchOrExecutionFailed ==
  /\ pc = "exited"
  /\ error # <<>>
  /\ error[1] \in {"Failed to fetch input for day", "Day execution failed"}

\* C1: when all days are run and the input fetch or the execution of one
\* registered day fails, every registered day after it is still processed by
\* run_day.
C1_LaterDaysStillProcessed ==
  (all_mode /\ FetchOrExecutionFailed)
    => \A j \in (idx + 1)..Len(Registered) : Has("header", Registered[j])

\* C2: a fetch_input of a day whose cache file exists sends no request, writes
\* no file and returns the file's content; the file is changed by nothing but
\* a fetch_input, so its content stays what the first write made it.
C2_CachedInputNeverRefetched ==
  \A d \in DayNums :
    LET h == fetch_hist[d]
    IN /\ \A i \in 1..Len(h) :
            h[i].before.exists =>
              /\ h[i].requests = 0
              /\ h[i].writes = 0
              /\ h[i].res = Ok(h[i].before.content)
              /\ h[i].after = h[i].before
       /\ \A i \in 2..Len(h) : h[i].before = h[i - 1].after
       /\ cache[d] = IF h = <<>> THEN NoFile ELSE h[Len(h)].after

\* A day was fetched again while its cache file existed.
C2_Witness ==
  \E d \in DayNums : Len(fetch_hist[d]) >= 2 /\ fetch_hist[d][2].before.exists

\* C3 as stated: the first two fetches of a day, starting from an empty cache,
\* send exactly one request between them, and the second returns what the first
\* returned.
C3_TwoFetchesOneRequest ==
  \A d \in DayNums :
    LET h == fetch_hist[d]
    IN (Len(h) >= 2 /\ ~h[1].before.exists)
         => /\ h[1].requests + h[2].requests = 1
            /\ h[2].res = h[1].res

\* C3 as amended: the same, when the first fetch succeeded.
C3_TwoFetchesOneRequestAfterSuccess ==
  \A d \in DayNums :
    LET h == fetch_hist[d]
    IN (Len(h) >= 2 /\ ~h[1].before.exists /\ h[1].res.ok)
         => /\ h[1].requests + h[2].requests = 1
            /\ h[2].res = h[1].res

\* A day was fetched twice, the first time with success from an empty cache.
C3_Witness ==
  \E d \in DayNums :
    /\ Len(fetch_hist[d]) >= 2
    /\ ~fetch_hist[d][1].before.exists
    /\ fetch_hist[d][1].res.ok

InvalidRequest ==
  \/ /\ args.specific_day # None
     /\ \/ args.specific_day[1] = 0
        \/ max_day(year).ok /\ args.specific_day[1] > max_day(year).val
  \/ args.num_runs = 0

\* C5: a run whose requested day is 0 or beyond max_day, or whose repeat count is
\* 0, ends with exit code 1 and an error, and nothing was tested, fetched,
\* requested or executed: no run_day was entered.
C5_InvalidRequestRejected ==
  InvalidRequest
    => /\ pc = "exited"
       /\ exit_code = 1
       /\ error # <<>>
       /\ log = <<>>
       /\ invocations = 0
       /\ calls = <<>>

\* Day 13 was requested for 2025, whose max_day is 12, and the run was rejected.
C5_Witness ==
  /\ year = "2025"
  /\ args.specific_day = Some(13)
  /\ pc = "exited"
  /\ exit_code = 1

\* The i-th event of the log reports a failed example test.
MismatchAt(i) ==
  /\ log[i].op = "report"
  /\ (log[i].part1 = "INCORRECT" \/ log[i].part2 = "INCORRECT")

\* C6 as stated: with tests-only not set, a reported mismatch of a day is
\* followed, by the end of that day's run_day, by fetch_input and execute_day
\* for that day.
C6_MismatchThenFetchAndExecute ==
  \A i \in 1..Len(log) :
    (/\ MismatchAt(i)
     /\ ~args.tests_only
     /\ (pc \in {"day_end", "exited"} \/ Day # log[i].day))
      => \E j \in (i + 1)..Len(log) :
           /\ log[j] = Event("fetch_input", log[i].day)
           /\ \E k \in (j + 1)..Len(log) : log[k] = Event("execute_day", log[i].day)

\* C6 as amended: the mismatch is followed at once by fetch_input, and by
\* execute_day unless that fetch failed.
C6_MismatchNeverBlocks ==
  \A i \in 1..Len(log) :
    (MismatchAt(i) /\ ~args.tests_only)
      => LET d == log[i].day
         IN \/ i = Len(log) /\ pc = "fetch" /\ Day = d
            \/ /\ i < Len(log)
               /\ log[i + 1] = Event("fetch_input", d)
               /\ \/ /\ pc = "exited"
                     /\ Day = d
                     /\ error # <<>>
                     /\ error[1] = "Failed to fetch input for day"
                  \/ pc = "execute" /\ Day = d /\ results = <<>>
                  \/ \E k \in (i + 2)..Len(log) : log[k] = Event("execute_day", d)

\* A mismatch was reported and the day was then fetched and executed.
C6_Witness ==
  \E i \in 1..Len(log) :
    /\ MismatchAt(i)
    /\ ~args.tests_only
    /\ \E k \in (i + 2)..Len(log) : log[k] = Event("execute_day", log[i].day)

\* C7: within one run_with_input, part two is called at most once, after a part
\* one that succeeded, on the same input and with the Context that part one
\* returned in this invocation; no part call of an invocation belongs to another.
C7_ContextHandedOverOnce ==
  /\ Len(calls) <= 2
  /\ \A i \in 1..Len(calls) :
       /\ calls[i].part = i
       /\ calls[i].inv = invocations
       /\ calls[i].part = 2 =>
            /\ calls[1].ret.ok
            /\ calls[2].ctx = calls[1].ret.val[2]
            /\ calls[2].input = calls[1].input
            /\ calls[2].ctx = Context(invocations, calls[2].input)

\* A second invocation of the process has run both parts.
C7_Witness ==
  /\ invocations >= 2
  /\ Len(calls) = 2
  /\ calls[2].part = 2
  /\ calls[2].ret.ok

\* The k-th smallest element of a non-empty sequence of numbers.
KthSmallest(seq, k) ==
  CHOOSE v \in {seq[i] : i \in DOMAIN seq} :
    /\ Cardinality({i \in DOMAIN seq : seq[i] < v}) < k
    /\ k <= Cardinality({i \in DOMAIN seq : seq[i] <= v})

RECURSIVE TotalUpTo(_, _)
TotalUpTo(seq, n) == IF n = 0 THEN 0 ELSE seq[n] + TotalUpTo(seq, n - 1)

\* The median the spec describes: the middle element of the sorted order, or
\* the average of its two central elements, in whole nanoseconds.
MedianOf(seq) ==
  LET n == Len(seq)
  IN IF n % 2 = 1 THEN KthSmallest(seq, (n + 1) \div 2)
     ELSE (KthSmallest(seq, n \div 2) + KthSmallest(seq, n \div 2 + 1)) \div 2

\* C8: for a non-empty slice build_stats returns its smallest and its largest
\* element as min and max, the median above, and the sum divided by the count
\* as mean; min <= median <= max and min <= mean <= max; a single element is all
\* four.
C8_StatsOfNonEmptySlice ==
  (run_stats # None /\ run_stats[1].given # <<>>)
    => LET g == run_stats[1].given
           st == run_stats[1].stats
           n == Len(g)
       IN /\ st.min = KthSmallest(g, 1)
          /\ st.max = KthSmallest(g, n)
          /\ \A i \in 1..n : st.min <= g[i] /\ g[i] <= st.max
          /\ st.median = MedianOf(g)
          /\ st.mean = TotalUpTo(g, n) \div n
          /\ st.min <= st.median /\ st.median <= st.max
          /\ st.min <= st.mean /\ st.mean <= st.max
          /\ n = 1 => (st.min = g[1] /\ st.max = g[1] /\ st.median = g[1]
                       /\ st.mean = g[1])

\* build_stats was given four durations out of order, whose median and mean
\* differ.
C8_Witness ==
  /\ run_stats # None
  /\ Len(run_stats[1].given) = 4
  /\ run_stats[1].given[1] > run_stats[1].given[2]
  /\ run_stats[1].stats.median # run_stats[1].stats.mean

\* C9: when run_day returns from n >= 2 repeated runs, execute_day was called
\* exactly n times, one call after the other and before the statistics, each
\* part's statistics were built from the n durations of the n results, and for
\* odd n each part's median is its ((n+1)/2)-th smallest duration.
C9_RepeatedRuns ==
  (pc = "day_end" /\ args.num_runs >= 2 /\ ~Has("skip", Day))
    => LET n == args.num_runs
           st == stats[1]
           first == Len(log) - n - 1
       IN /\ Count(log, "execute_day") = n
          /\ Count(log, "build_stats") = 2
          /\ \A i \in first..(first + n - 1) : log[i] = Event("execute_day", Day)
          /\ Len(results) = n
          /\ Len(st.p1_times) = n
          /\ Len(st.p2_times) = n
          /\ \A i \in 1..n : /\ st.p1_times[i] = results[i].part_1_time
                             /\ st.p2_times[i] = results[i].part_2_time
          /\ n % 2 = 1 =>
               /\ st.p1_stats.median = KthSmallest(st.p1_times, (n + 1) \div 2)
               /\ st.p2_stats.median = KthSmallest(st.p2_times, (n + 1) \div 2)

\* Three runs returned, with part one's durations arriving out of order.
C9_Witness ==
  /\ pc = "day_end"
  /\ args.num_runs = 3
  /\ stats[1].p1_times[1] > stats[1].p1_times[2]
  /\ stats[1].p1_stats.median = 2
  /\ stats[1].p1_stats.min = 1

\* C10: at run_day's gate, when the present moment at UTC-5 is in December of
\* the configured year, current_aoc_day is the day of the month clamped to
\* max_day; otherwise it is none.
C10_CurrentDayClamped ==
  (idx > 0 /\ pc = "tests")
    => LET now == ToOffsetMinus5(Instants[clock])
           max == max_day(year).val
       IN IF YearToString(now.y) = year /\ now.mo = 12
            THEN today = Some(IF now.d <= max THEN now.d ELSE max)
            ELSE today = None

\* The present moment, in AoC time (UTC-5), is in another year than the
\* configured one or outside December.
OutsideEvent ==
  LET now == ToOffsetMinus5(Instants[clock])
  IN YearToString(now.y) # year \/ now.mo # 12

\* C11: when the present moment is in another year than the configured one, or
\* outside December, current_aoc_day is none, and a run_day that passed its
\* gate at that moment found no current day and printed no skip notice.
C11_NoGateOutsideEvent ==
  OutsideEvent
    => /\ current_aoc_day(year, Instants[clock]) = None
       /\ (idx > 0 /\ pc \in {"tests", "fetch", "execute", "report", "day_end"})
            => (today = None /\ ~Has("skip", Day))

\* Day 13 of 2024 went through the gate on an early December day of 2025.
C11_Witness ==
  /\ idx > 0
  /\ pc = "tests"
  /\ year = "2024"
  /\ Day = 13
  /\ ToOffsetMinus5(Instants[clock]).y = 2025
  /\ ToOffsetMinus5(Instants[clock]).mo = 12
  /\ ToOffsetMinus5(Instants[clock]).d < 13

\* C12: when run_with_args is handed neither a day nor --all and
\* current_aoc_day is none, the process exits with code 1 and an error ("No day
\* specified" when the arguments are otherwise valid), and nothing was tested,
\* fetched or executed; with --all and otherwise valid arguments the same moment
\* is no error: run_all_days enters run_day.
C12_NoDayIsUsageError ==
  [][(pc = "ready" /\ pc' # "ready"
        /\ current_aoc_day(year, Instants[clock]) = None)
       => /\ (args'.specific_day = None /\ ~args'.all_days)
               => /\ pc' = "exited"
                  /\ exit_code' = 1
                  /\ error' # <<>>
                  /\ ArgsError(args') = <<>> => error' = <<"No day specified">>
                  /\ log' = <<>>
                  /\ invocations' = 0
                  /\ calls' = <<>>
                  /\ cache' = cache
                  /\ fetch_hist' = fetch_hist
          /\ (args'.all_days /\ ArgsError(args') = <<>>)
               => /\ pc' = "run_day"
                  /\ exit_code' = -1
                  /\ error' = <<>>]_vars

\* A run without a day and without --all ended on the error of line 108.
C12_Witness ==
  /\ pc = "exited"
  /\ args.specific_day = None
  /\ ~args.all_days
  /\ exit_code = 1
  /\ error = <<"No day specified">>
  /\ log = <<>>

\* C13: the part calls of an execute_day are made on the input run_day fetched
\* and handed over; the part calls of a test_day are made on the example input.
C13_ExecuteDayUsesFetchedInput ==
  /\ (idx > 0 /\ pc \in {"execute", "report", "day_end"} /\ log # <<>>
        /\ log[Len(log)] = Event("execute_day", Day))
       => \A i \in 1..Len(calls) : calls[i].input = input
  /\ (idx > 0 /\ pc = "fetch" /\ ~args.skip_tests)
       => \A i \in 1..Len(calls) : calls[i].input = ExampleInput(Day)

\* Whether c is an entry of the prompt with the whitespace at its two ends, and
\* nothing else, taken off.
IsTrimmedEntry(c) ==
  /\ c # <<>> => (c[1] \notin Whitespace /\ c[Len(c)] \notin Whitespace)
  /\ \E e \in Entries :
       \E i \in 1..(Len(e) + 1) :
         /\ i + Len(c) - 1 <= Len(e)
         /\ c = SubSeq(e, i, i + Len(c) - 1)
         /\ \A k \in 1..(i - 1) : e[k] \in Whitespace
         /\ \A k \in (i + Len(c))..Len(e) : e[k] \in Whitespace
         /\ c = <<>> => \A k \in 1..Len(e) : e[k] \in Whitespace

\* C14: over any sequence of initializations in the working directory the
\* prompt is made once, by the first; from then on the credential file exists
\* and holds the trimmed entry, and every process's session cookie is read from
\* it.
C14_CredentialPromptedOnce ==
  /\ prompts <= 1
  /\ prompts = (IF procs = 0 THEN 0 ELSE 1)
  /\ session_file.exists <=> procs >= 1
  /\ session_file.exists => IsTrimmedEntry(session_file.content)
  /\ procs >= 1 => session_cookie = <<"session=">> \o session_file.content

\* A second process was initialized in the directory the first prompted in.
C14_Witness ==
  /\ procs = 2
  /\ pc = "ready"
  /\ prompts = 1
  /\ session_file = File(<<"t">>)
  /\ session_cookie = <<"session=", "t">>

\* C15: a fetch_input of a day with no cache file sends exactly one request; on
\* a response that is not a success it returns an error and the day still has
\* no cache file; on a success it returns the response's body, and the day's
\* cache file holds that body when it returns.
C15_FetchOfUncachedDay ==
  \A d \in DayNums :
    \A i \in 1..Len(fetch_hist[d]) :
      LET h == fetch_hist[d][i]
      IN ~h.before.exists
           => /\ h.requests = 1
              /\ h.resp # None
              /\ IF h.resp[1].success
                   THEN /\ h.res = Ok(h.resp[1].body)
                        /\ h.after = File(h.resp[1].body)
                        /\ h.writes = 1
                   ELSE /\ ~h.res.ok
                        /\ h.after = NoFile
                        /\ h.writes = 0

\* A day's fetch failed in one process and succeeded, from the site, in the
\* next.
C15_Witness ==
  \E d \in DayNums :
    /\ Len(fetch_hist[d]) = 2
    /\ ~fetch_hist[d][1].res.ok
    /\ ~fetch_hist[d][2].before.exists
    /\ fetch_hist[d][2].res = Ok("B")
    /\ cache[d] = File("B")

\* C16: a process run with --skip-tests calls test_day for no day; a process
\* run with --tests-only calls fetch_input and execute_day for no day, sends no
\* request and writes no cache file.
C16_TestModeFlags ==
  /\ args.skip_tests
       => \A i \in 1..Len(log) : log[i].op \notin {"test_day", "report", "warn"}
  /\ args.tests_only
       => \A i \in 1..Len(log) :
            log[i].op \notin {"fetch_input", "http_get", "cache_write",
                              "execute_day", "build_stats"}

\* A --tests-only run of all days has tested the second registered day and
\* returned.
C16_Witness ==
  /\ args.tests_only
  /\ all_mode
  /\ idx = 2
  /\ pc = "day_end"
  /\ Has("test_day", Registered[1])
  /\ Has("test_day", Registered[2])

\* How many events of kind op the process's log holds for day d.
CountFor(op, d) == Len(SelectSeq(log, LAMBDA e : e.op = op /\ e.day = d))

\* C17: within one process, every day is fetched at most once and asked of the
\* site at most once, never when its cache file existed at the fetch; no fetch
\* follows an execute_day of the same day, and every execute_day of run_day is
\* handed the text that fetch returned.
C17_OneGetPerDay ==
  \A d \in DayNums :
    /\ CountFor("fetch_input", d) <= 1
    /\ CountFor("http_get", d) <= 1
    /\ CountFor("fetch_input", d) = 1
         => LET h == fetch_hist[d][Len(fetch_hist[d])]
            IN /\ CountFor("http_get", d) = (IF h.before.exists THEN 0 ELSE 1)
               /\ (idx > 0 /\ Day = d /\ pc \in {"execute", "report", "day_end"})
                    => (h.res.ok /\ input = h.res.val)
    /\ \A i \in 1..Len(log) : \A j \in (i + 1)..Len(log) :
         log[i] = Event("execute_day", d) => log[j] # Event("fetch_input", d)
    /\ (idx > 0 /\ Day = d /\ pc = "day_end" /\ CountFor("execute_day", d) > 0)
         => /\ CountFor("execute_day", d) = args.num_runs
            /\ CountFor("fetch_input", d) = 1

\* Two repeated runs of a day returned, on an input asked of the site once.
C17_Witness ==
  /\ idx > 0
  /\ pc = "day_end"
  /\ args.num_runs = 2
  /\ CountFor("execute_day", Day) = 2
  /\ CountFor("http_get", Day) = 1

\* C18 as stated: a run_day that the gate ended, for a day after the current
\* playable day and with tests not disabled, has run test_day on the example
\* and has neither fetched nor executed.
C18_GateSkipsOnlyExecution ==
  (idx > 0 /\ pc = "day_end" /\ today # None /\ today[1] < Day
     /\ ~args.skip_tests)
    => /\ Has("test_day", Day)
       /\ ~Has("fetch_input", Day)
       /\ ~Has("execute_day", Day)

\* C18 as amended: when run_day reaches its gate for a day within max_day that
\* is after the current playable day, it returns there, whatever the test-mode
\* flags: the header and the skip notice are printed, no part is called, and
\* nothing is fetched.
C18_GateSkipsTestsToo ==
  [][(/\ pc = "run_day"
      /\ pc' # "run_day"
      /\ max_day(year).ok
      /\ Day <= max_day(year).val
      /\ current_aoc_day(year, Instants[clock]) # None
      /\ current_aoc_day(year, Instants[clock])[1] < Day)
       => /\ pc' = "day_end"
          /\ stats' = Some(DefaultStats)
          /\ log' = log \o <<Event("header", Day), Event("skip", Day)>>
          /\ invocations' = invocations
          /\ calls' = calls
          /\ cache' = cache
          /\ fetch_hist' = fetch_hist]_vars

\* The gate ended the run_day of a day after the current playable day, in a run
\* whose tests were not disabled, and no test_day was made for it.
C18_Witness ==
  /\ idx > 0
  /\ pc = "day_end"
  /\ today # None
  /\ today[1] < Day
  /\ ~args.skip_tests
  /\ ~Has("test_day", Day)
  /\ log[Len(log)] = Event("skip", Day)

\* C19: when execute_day fails the run ends at once on "Day execution failed":
\* each part was called at most once in that invocation, the last part called
\* is the one that failed, the error chain names that part, and neither a
\* further execute_day nor the statistics followed.
C19_FailedPartIdentified ==
  (pc = "exited" /\ error # <<>> /\ error[1] = "Day execution failed")
    => /\ Len(calls) \in 1..2
       /\ \A i \in 1..Len(calls) : calls[i].part = i
       /\ ~calls[Len(calls)].ret.ok
       /\ log[Len(log)] = Event("execute_day", Day)
       /\ ~Has("build_stats", Day)
       /\ \E k \in 1..Len(error) :
            error[k] = (IF Len(calls) = 1 THEN "part 1" ELSE "part 2")

\* C20: a registered day beyond the configured year's max_day is never tested,
\* fetched, asked of the site or executed; a run_day entered for it prints the
\* header and ends the run on "Day is not valid for year".
C20_DayBeyondMaxNeverRun ==
  \A d \in DayNums :
    (max_day(year).ok /\ d > max_day(year).val)
      => /\ ~Has("test_day", d)
         /\ ~Has("fetch_input", d)
         /\ ~Has("http_get", d)
         /\ ~Has("execute_day", d)
         /\ ~Has("skip", d)
         /\ fetch_hist[d] = <<>>
         /\ cache[d] = NoFile
         /\ Has("header", d)
              => /\ pc = "exited"
                 /\ exit_code = 1
                 /\ error = <<"Day is not valid for year">>
                 /\ log[Len(log)] = Event("header", d)

\* A run of all days of 2025 reached the registered day 13 and ended on it.
C20_Witness ==
  /\ year = "2025"
  /\ all_mode
  /\ pc = "exited"
  /\ Has("header", 13)
  /\ error = <<"Day is not valid for year">>

====
